---- MODULE Spec2Model ----
(***************************************************************************)
(* MirrorMind bot (kmai2.py): the language system, the two SQLite tables   *)
(* behind the process-wide connection and cursor, and the six update       *)
(* handlers.  Texts are sequences of one-character strings, so that        *)
(* Python's `in` is a real substring test.                                 *)
(***************************************************************************)
EXTENDS Naturals, Sequences, FiniteSets, TLC

\* ------------------------------------------------------------------ bounds
NumUsers == 2
MaxEvents == 3
MaxTokens == 3
NumThreads == 2

Users == 1..NumUsers
Threads == 1..NumThreads

\* ------------------------------------------------- values of the program
\* Python's None where a string is expected (a tag, response.text, mime_type)
None == "None"
\* SQL NULL in a column; a non-NULL column value v is <<v>>
NULL == <<>>

cHinglish == <<"H","i","n","g","l","i","s","h">>
cBengalish == <<"B","e","n","g","a","l","i","s","h">>
cEnglish == <<"E","n","g","l","i","s","h">>
cHindi == <<"H","i","n","d","i">>
cBengali == <<"B","e","n","g","a","l","i">>

\* the five tags, in the order normalize_language tests them
Priority == <<"Hinglish", "Bengalish", "English", "Hindi", "Bengali">>
Tags == {Priority[i] : i \in 1..Len(Priority)}

Chars(tag) ==
    CASE tag = "Hinglish" -> cHinglish
      [] tag = "Bengalish" -> cBengalish
      [] tag = "English" -> cEnglish
      [] tag = "Hindi" -> cHindi
      [] tag = "Bengali" -> cBengali

\* the flag emoji that starts every button of LANGUAGE_KEYBOARD
cFlag == <<"~">>
cSpace == <<" ">>

\* sub in text
Contains(sub, text) ==
    \E i \in 1..(Len(text) + 1) :
        /\ i + Len(sub) - 1 <= Len(text)
        /\ SubSeq(text, i, i + Len(sub) - 1) = sub

\* ------------------------------------------------------- language system
normalize_language_dropHindi(text) ==
    IF Contains(cHinglish, text) THEN "Hinglish"
    ELSE IF Contains(cBengalish, text) THEN "Bengalish"
    ELSE IF Contains(cEnglish, text) THEN "English"
    ELSE IF Contains(cBengali, text) THEN "Bengali"
    ELSE None

normalize_language_englishFirst(text) ==
    IF Contains(cEnglish, text) THEN "English"
    ELSE IF Contains(cHinglish, text) THEN "Hinglish"
    ELSE IF Contains(cBengalish, text) THEN "Bengalish"
    ELSE IF Contains(cHindi, text) THEN "Hindi"
    ELSE IF Contains(cBengali, text) THEN "Bengali"
    ELSE None

normalize_language(text) ==
    IF Contains(cHinglish, text) THEN "Hinglish"
    ELSE IF Contains(cBengalish, text) THEN "Bengalish"
    ELSE IF Contains(cEnglish, text) THEN "English"
    ELSE IF Contains(cHindi, text) THEN "Hindi"
    ELSE IF Contains(cBengali, text) THEN "Bengali"
    ELSE None

language_instruction(lang) ==
    CASE lang = "English" -> "Respond in English."
      [] lang = "Hindi" -> "Respond in Hindi using Devanagari script."
      [] lang = "Bengali" -> "Respond in Bengali script."
      [] lang = "Hinglish" -> "Respond in Hinglish (Hindi written in English letters)."
      [] lang = "Bengalish" -> "Respond in Bengalish (Bengali written in English letters)."
      [] OTHER -> "Respond in English."

\* ---------------------------------------------------------- generation
\* What client.models.generate_content does: it raises, or it returns a
\* response whose .text is None, empty or a text.
GenResults ==
    { [raises |-> TRUE, text |-> None],
      [raises |-> FALSE, text |-> None],
      [raises |-> FALSE, text |-> ""],
      [raises |-> FALSE, text |-> "AI reply"] }

\* generate_ai: response.text, or None when the call raised
generate_ai(g) == IF g.raises THEN None ELSE g.text

\* Python truthiness of an optional string
Falsy(s) == s = None \/ s = ""

\* ------------------------------------------------------------- state
VARIABLES
    users,        \* table users: set of rows [user_id, language]
    messages,     \* table messages: sequence of rows, in insertion order
    cursorRows,   \* rows the shared cursor still has to hand out
    now,          \* datetime.now(); one tick per inbound update
    msg,          \* the update whose handler ran last
    replies,      \* reply_text calls of that handler that were delivered
    gens,         \* generate_content calls of that handler
    raised,       \* an exception left that handler
    pc,           \* per request thread: where its handler stands
    req,          \* per request thread: the update it is handling
    got,          \* per request thread: what its cursor.fetchone() returned
    visible,      \* per request thread: the stored preferences its user has
                  \* had since the thread's cursor.execute (history)
    arg,          \* resolver harness: the text under test
    res           \* resolver harness: normalize_language's result

vars == <<users, messages, cursorRows, now, msg, replies, gens, raised,
          pc, req, got, visible, arg, res>>

threadVars == <<pc, req, got, visible>>
harnessVars == <<arg, res>>

\* ------------------------------------------------------------ the store
RECURSIVE RowsOf(_)
\* the rows of a result set, in some order
RowsOf(S) ==
    IF S = {} THEN <<>>
    ELSE LET r == CHOOSE x \in S : TRUE IN <<r>> \o RowsOf(S \ {r})

\* cursor.execute("SELECT language FROM users WHERE user_id=?"): the result set
execute_select(tbl, user_id) ==
    RowsOf({ <<r.language>> : r \in { x \in tbl : x.user_id = user_id } })

\* cursor.fetchone(): the next pending row, or the empty (falsy) result
fetchone(rows) == IF rows = <<>> THEN <<>> ELSE Head(rows)

\* what the cursor has left after fetchone()
after_fetch(rows) == IF rows = <<>> THEN <<>> ELSE Tail(rows)

\* the stored preference of a user: what execute and fetchone give together
get_language(tbl, user_id) == fetchone(execute_select(tbl, user_id))

upsert_insertOnly(tbl, user_id, lang) ==
    tbl \cup { [user_id |-> user_id, language |-> lang] }

\* INSERT INTO users ... ON CONFLICT(user_id) DO UPDATE SET language=excluded.language
upsert(tbl, user_id, lang) ==
    IF \E r \in tbl : r.user_id = user_id
    THEN { IF r.user_id = user_id THEN [r EXCEPT !.language = lang] ELSE r : r \in tbl }
    ELSE tbl \cup { [user_id |-> user_id, language |-> lang] }

\* INSERT INTO messages(user_id, text, mood_score, timestamp) VALUES (?, ?, None, now)
insert_message(log, user_id, text, ts) ==
    Append(log, [user_id |-> user_id, text |-> text,
                 mood_score |-> NULL, timestamp |-> <<ts>>])

\* -------------------------------------------------------- chat delivery
Reply(user_id, text) == [to |-> user_id, text |-> text]

\* update.message.reply_text: Telegram refuses a message without text
reply_raises(text) == Falsy(text)

Update(kind, user_id, text) == [kind |-> kind, user_id |-> user_id, text |-> text]

\* the persona prompt of text_handler and the two media directives
Persona == "You are MirrorMind Pro."
ImageHint == "Describe this image emotionally."
AudioHint == "Transcribe this audio and respond emotionally."

\* one generate_content call: its two content segments and what came back
GenCall(lang, directive, content, mime_type, g) ==
    [instruction |-> language_instruction(lang), directive |-> directive,
     content |-> content, mime_type |-> mime_type, response |-> g]

\* --------------------------------------------------------------- handlers
\* Every handler below leaves now, the thread variables and the harness
\* variables to its caller.

start_tail_registers(user_id, result, c) ==
    /\ msg' = Update("start", user_id, <<>>)
    /\ cursorRows' = c
    /\ replies' = <<Reply(user_id, IF result = <<>>
                                   THEN "Select your language:"
                                   ELSE "Hi. Tell me what's on your mind.")>>
    /\ gens' = <<>>
    /\ raised' = FALSE
    /\ users' = IF result = <<>> THEN upsert(users, user_id, "English") ELSE users
    /\ UNCHANGED messages

\* start, after its lookup returned result and left c in the cursor
start_tail(user_id, result, c) ==
    /\ msg' = Update("start", user_id, <<>>)
    /\ cursorRows' = c
    /\ replies' = <<Reply(user_id, IF result = <<>>
                                   THEN "Select your language:"
                                   ELSE "Hi. Tell me what's on your mind.")>>
    /\ gens' = <<>>
    /\ raised' = FALSE
    /\ UNCHANGED <<users, messages>>

start(user_id) ==
    LET rows == execute_select(users, user_id)
    IN start_tail(user_id, fetchone(rows), after_fetch(rows))

language_cmd(user_id) ==
    /\ msg' = Update("language", user_id, <<>>)
    /\ replies' = <<Reply(user_id, "Select language:")>>
    /\ gens' = <<>>
    /\ raised' = FALSE
    /\ UNCHANGED <<users, messages, cursorRows>>

\* text_handler, selection branch (lines 153-163)
text_select(user_id, text, lang_select) ==
    /\ msg' = Update("text", user_id, text)
    /\ users' = upsert(users, user_id, lang_select)
    /\ cursorRows' = <<>>
    /\ replies' = <<Reply(user_id, "Language set to " \o lang_select)>>
    /\ gens' = <<>>
    /\ raised' = FALSE
    /\ UNCHANGED messages

text_tail_logFirst(user_id, text, result, c, g, ts) ==
    /\ msg' = Update("text", user_id, text)
    /\ UNCHANGED users
    /\ IF result = <<>>
       THEN /\ replies' = <<Reply(user_id, "Please select language first.")>>
            /\ gens' = <<>>
            /\ cursorRows' = c
            /\ UNCHANGED messages
       ELSE /\ gens' = <<GenCall(result[1], Persona, text, None, g)>>
            /\ messages' = insert_message(messages, user_id, text, ts)
            /\ cursorRows' = <<>>
            /\ replies' = <<Reply(user_id, IF Falsy(generate_ai(g))
                                           THEN "Error generating response."
                                           ELSE generate_ai(g))>>
    /\ raised' = FALSE

text_tail_defaultEnglish(user_id, text, result, c, g, ts) ==
    LET lang == IF result = <<>> THEN "English" ELSE result[1]
        ai_response == generate_ai(g)
    IN /\ msg' = Update("text", user_id, text)
       /\ UNCHANGED users
       /\ gens' = <<GenCall(lang, Persona, text, None, g)>>
       /\ IF Falsy(ai_response)
          THEN /\ replies' = <<Reply(user_id, "Error generating response.")>>
               /\ cursorRows' = c
               /\ UNCHANGED messages
          ELSE /\ messages' = insert_message(messages, user_id, text, ts)
               /\ cursorRows' = <<>>
               /\ replies' = <<Reply(user_id, ai_response)>>
       /\ raised' = FALSE

\* text_handler after its lookup (lines 168-201)
text_tail(user_id, text, result, c, g, ts) ==
    /\ msg' = Update("text", user_id, text)
    /\ UNCHANGED users
    /\ IF result = <<>>
       THEN /\ replies' = <<Reply(user_id, "Please select language first.")>>
            /\ gens' = <<>>
            /\ cursorRows' = c
            /\ UNCHANGED messages
       ELSE LET lang == result[1]
                ai_response == generate_ai(g)
            IN /\ gens' = <<GenCall(lang, Persona, text, None, g)>>
               /\ IF Falsy(ai_response)
                  THEN /\ replies' = <<Reply(user_id, "Error generating response.")>>
                       /\ cursorRows' = c
                       /\ UNCHANGED messages
                  ELSE /\ messages' = insert_message(messages, user_id, text, ts)
                       /\ cursorRows' = <<>>
                       /\ replies' = <<Reply(user_id, ai_response)>>
    /\ raised' = FALSE

text_handler(user_id, text, g) ==
    LET lang_select == normalize_language(text)
    IN IF ~Falsy(lang_select)
       THEN text_select(user_id, text, lang_select)
       ELSE LET rows == execute_select(users, user_id)
            IN text_tail(user_id, text, fetchone(rows), after_fetch(rows), g, now)

\* get_file / download_as_bytearray raised: nothing catches it
download_failed(kind, user_id) ==
    /\ msg' = Update(kind, user_id, <<>>)
    /\ replies' = <<>>
    /\ gens' = <<>>
    /\ raised' = TRUE
    /\ UNCHANGED <<users, messages, cursorRows>>

media_tail_requireSelection(kind, user_id, result, c, directive, content, mime_type, fallback, g) ==
    /\ msg' = Update(kind, user_id, <<>>)
    /\ cursorRows' = c
    /\ IF result = <<>>
       THEN /\ gens' = <<>>
            /\ replies' = <<Reply(user_id, "Please select language first.")>>
       ELSE /\ gens' = <<GenCall(result[1], directive, content, mime_type, g)>>
            /\ replies' = <<Reply(user_id, IF g.raises \/ reply_raises(g.text)
                                           THEN fallback ELSE g.text)>>
    /\ raised' = FALSE
    /\ UNCHANGED <<users, messages>>

\* photo_handler / audio_handler after the lookup: the try block and its except
media_tail(kind, user_id, result, c, directive, content, mime_type, fallback, g) ==
    LET lang == IF result # <<>> THEN result[1] ELSE "English"
    IN /\ msg' = Update(kind, user_id, <<>>)
       /\ cursorRows' = c
       /\ gens' = <<GenCall(lang, directive, content, mime_type, g)>>
       /\ replies' = <<Reply(user_id, IF g.raises \/ reply_raises(g.text)
                                      THEN fallback ELSE g.text)>>
       /\ raised' = FALSE
       /\ UNCHANGED <<users, messages>>

FileBytes == <<"bytes">>

photo_tail(user_id, result, c, g) ==
    media_tail("photo", user_id, result, c, ImageHint, FileBytes, "image/jpeg",
               "Couldn't analyze image.", g)

photo_handler(user_id, downloaded, g) ==
    IF ~downloaded
    THEN download_failed("photo", user_id)
    ELSE LET rows == execute_select(users, user_id)
         IN photo_tail(user_id, fetchone(rows), after_fetch(rows), g)

\* media.mime_type or "audio/ogg"
audio_mime(mime) == IF Falsy(mime) THEN "audio/ogg" ELSE mime

audio_tail(user_id, mime, result, c, g) ==
    media_tail("audio", user_id, result, c, AudioHint, FileBytes, audio_mime(mime),
               "Couldn't process audio.", g)

audio_handler(user_id, mime, downloaded, g) ==
    IF ~downloaded
    THEN download_failed("audio", user_id)
    ELSE LET rows == execute_select(users, user_id)
         IN audio_tail(user_id, mime, fetchone(rows), after_fetch(rows), g)

video_handler_describe(user_id) ==
    /\ msg' = Update("video", user_id, <<>>)
    /\ replies' = <<Reply(user_id, "Video analysis currently limited. Coming soon")>>
    /\ gens' = <<GenCall("English", ImageHint, FileBytes, "video/mp4",
                       [raises |-> FALSE, text |-> "AI reply"])>>
    /\ raised' = FALSE
    /\ UNCHANGED <<users, messages, cursorRows>>

video_handler(user_id) ==
    /\ msg' = Update("video", user_id, <<>>)
    /\ replies' = <<Reply(user_id, "Video analysis currently limited. Coming soon")>>
    /\ gens' = <<>>
    /\ raised' = FALSE
    /\ UNCHANGED <<users, messages, cursorRows>>

\* ------------------------------------------------------------- inputs
Button(tag) == cFlag \o cSpace \o Chars(tag)
cHi == <<"h","i">>
cSad == <<"s","a","d">>

\* texts users send in the handler specifications
Texts == { Button("English"), Button("Hindi"), cBengalish, cHi, cSad }

\* voice/audio attachments come with or without a MIME type
Mimes == { None, "audio/mpeg" }

\* ------------------------------------------- one update at a time (Spec)
NoUpdate == Update("none", 0, <<>>)
NoRequest == [kind |-> "none", user_id |-> 0, text |-> <<>>, mime |-> None]

Init ==
    /\ users = {}
    /\ messages = <<>>
    /\ cursorRows = <<>>
    /\ now = 1
    /\ msg = NoUpdate
    /\ replies = <<>>
    /\ gens = <<>>
    /\ raised = FALSE
    /\ pc = [t \in Threads |-> "idle"]
    /\ req = [t \in Threads |-> NoRequest]
    /\ got = [t \in Threads |-> <<>>]
    /\ visible = [t \in Threads |-> {}]
    /\ arg = <<>>
    /\ res = None

Tick ==
    /\ now <= MaxEvents
    /\ now' = now + 1
    /\ UNCHANGED threadVars
    /\ UNCHANGED harnessVars

OnStart == \E u \in Users : Tick /\ start(u)
OnLanguage == \E u \in Users : Tick /\ language_cmd(u)
OnText == \E u \in Users, text \in Texts, g \in GenResults : Tick /\ text_handler(u, text, g)
OnPhoto == \E u \in Users, d \in BOOLEAN, g \in GenResults : Tick /\ photo_handler(u, d, g)
OnAudio ==
    \E u \in Users, m \in Mimes, d \in BOOLEAN, g \in GenResults :
        Tick /\ audio_handler(u, m, d, g)
OnVideo == \E u \in Users : Tick /\ video_handler(u)

Next == OnStart \/ OnLanguage \/ OnText \/ OnPhoto \/ OnAudio \/ OnVideo

Spec == Init /\ [][Next]_vars

\* --------------------------------- concurrent request threads (SpecConc)
\* Each webhook request runs its handler in a thread of its own, against the
\* one connection and the one cursor.  A handler's steps are its calls on the
\* cursor; what a service does is chosen when the handler calls it.
Request(kind, user_id, text, mime) ==
    [kind |-> kind, user_id |-> user_id, text |-> text, mime |-> mime]

Requests ==
    { Request(k, u, <<>>, None) : k \in {"start", "language", "photo", "video"}, u \in Users }
        \cup { Request("text", u, text, None) : u \in Users, text \in Texts }
        \cup { Request("audio", u, <<>>, m) : u \in Users, m \in Mimes }

\* the handler of r starts with SELECT language FROM users
LooksUp(r) ==
    \/ r.kind \in {"start", "photo", "audio"}
    \/ r.kind = "text" /\ Falsy(normalize_language(r.text))

Accept(t, r) ==
    /\ pc[t] = "idle"
    /\ now <= MaxEvents
    /\ now' = now + 1
    /\ req' = [req EXCEPT ![t] = r]
    /\ UNCHANGED harnessVars

\* a handler that never reads the cursor, or whose media download raises
ConcDirect(t) ==
    \E r \in Requests :
        /\ Accept(t, r)
        /\ UNCHANGED <<pc, got>>
        /\ \/ r.kind = "language" /\ language_cmd(r.user_id) /\ UNCHANGED visible
           \/ r.kind = "video" /\ video_handler(r.user_id) /\ UNCHANGED visible
           \/ /\ r.kind = "text"
              /\ ~Falsy(normalize_language(r.text))
              /\ text_select(r.user_id, r.text, normalize_language(r.text))
              /\ visible' = [s \in Threads |->
                                IF pc[s] = "fetch" /\ req[s].user_id = r.user_id
                                THEN visible[s] \cup { <<normalize_language(r.text)>> }
                                ELSE visible[s]]
           \/ /\ r.kind \in {"photo", "audio"}
              /\ download_failed(r.kind, r.user_id)
              /\ UNCHANGED visible

\* cursor.execute(SELECT ...) of thread t
ConcExecute(t) ==
    \E r \in Requests :
        /\ LooksUp(r)
        /\ Accept(t, r)
        /\ cursorRows' = execute_select(users, r.user_id)
        /\ pc' = [pc EXCEPT ![t] = "fetch"]
        /\ visible' = [visible EXCEPT ![t] = { get_language(users, r.user_id) }]
        /\ UNCHANGED <<users, messages, msg, replies, gens, raised, got>>

\* cursor.fetchone() of thread t
ConcFetch(t) ==
    /\ pc[t] = "fetch"
    /\ got' = [got EXCEPT ![t] = fetchone(cursorRows)]
    /\ cursorRows' = after_fetch(cursorRows)
    /\ pc' = [pc EXCEPT ![t] = "finish"]
    /\ UNCHANGED <<users, messages, now, msg, replies, gens, raised, req, visible>>
    /\ UNCHANGED harnessVars

\* the rest of thread t's handler
ConcFinish(t) ==
    /\ pc[t] = "finish"
    /\ pc' = [pc EXCEPT ![t] = "idle"]
    /\ UNCHANGED <<now, req, got, visible>>
    /\ UNCHANGED harnessVars
    /\ LET r == req[t]
       IN \/ r.kind = "start" /\ start_tail(r.user_id, got[t], cursorRows)
          \/ /\ r.kind = "text"
             /\ \E g \in GenResults :
                    text_tail(r.user_id, r.text, got[t], cursorRows, g, now)
          \/ /\ r.kind = "photo"
             /\ \E g \in GenResults : photo_tail(r.user_id, got[t], cursorRows, g)
          \/ /\ r.kind = "audio"
             /\ \E g \in GenResults :
                    audio_tail(r.user_id, r.mime, got[t], cursorRows, g)

NextConc ==
    \E t \in Threads : ConcDirect(t) \/ ConcExecute(t) \/ ConcFetch(t) \/ ConcFinish(t)

SpecConc == Init /\ [][NextConc]_vars

\* ----------------------------------------- the resolver alone (SpecNorm)
Tokens ==
    { cHinglish, cBengalish, cEnglish, cHindi, cBengali,
      <<"B","e","n","g">>, <<"a","l","i">>, <<"s","h">>,
      <<"H","i","n">>, <<"d","i">>, <<"g","l","i","s","h">>, <<"E","n">>,
      <<"e","n","g","l","i","s","h">>, cSpace, cFlag }

RECURSIVE TextsOfLen(_)
TextsOfLen(n) ==
    IF n = 0 THEN { <<>> }
    ELSE { t \o k : t \in TextsOfLen(n - 1), k \in Tokens }

AllTexts == UNION { TextsOfLen(n) : n \in 0..MaxTokens }

Pending == "pending"

InitNorm ==
    /\ users = {}
    /\ messages = <<>>
    /\ cursorRows = <<>>
    /\ now = 1
    /\ msg = NoUpdate
    /\ replies = <<>>
    /\ gens = <<>>
    /\ raised = FALSE
    /\ pc = [t \in Threads |-> "idle"]
    /\ req = [t \in Threads |-> NoRequest]
    /\ got = [t \in Threads |-> <<>>]
    /\ visible = [t \in Threads |-> {}]
    /\ arg \in AllTexts
    /\ res = Pending

Resolve ==
    /\ res = Pending
    /\ res' = normalize_language(arg)
    /\ UNCHANGED <<users, messages, cursorRows, now, msg, replies, gens, raised,
                   pc, req, got, visible, arg>>

NextNorm == Resolve

SpecNorm == InitNorm /\ [][NextNorm]_vars

\* ------------------------------------------------------------- claims
SelectPrompts == { "Select your language:", "Select language:", "Please select language first." }

\* tag is written in text at position i
NameAt(tag, text, i) ==
    /\ i + Len(Chars(tag)) - 1 <= Len(text)
    /\ SubSeq(text, i, i + Len(Chars(tag)) - 1) = Chars(tag)

\* the tags that occur in text as substrings
Contained(text) == { tag \in Tags : \E i \in 1..Len(text) : NameAt(tag, text, i) }

\* the names written in text: an occurrence of "Bengali" that is the start of
\* an occurrence of "Bengalish" is the name Bengalish, not the name Bengali
Mentioned(text) ==
    { tag \in Tags :
        \E i \in 1..Len(text) :
            /\ NameAt(tag, text, i)
            /\ ~\E longer \in Tags :
                    /\ Len(Chars(longer)) > Len(Chars(tag))
                    /\ NameAt(longer, text, i) }

Rank(tag) == CHOOSE i \in 1..Len(Priority) : Priority[i] = tag

\* C1: whatever the update and whatever the download and the generation call
\* do, the handler ends with exactly one reply delivered to the sender.
C1_ExactlyOneReply ==
    msg.kind # "none" =>
        /\ Len(replies) = 1
        /\ replies[1].to = msg.user_id
        /\ ~raised

\* a non-selection text of a user who has a stored preference is handled
C2_Case ==
    /\ msg'.kind = "text"
    /\ Falsy(normalize_language(msg'.text))
    /\ get_language(users, msg'.user_id) # <<>>

C2_OneRow ==
    /\ Len(messages') = Len(messages) + 1
    /\ SubSeq(messages', 1, Len(messages)) = messages
    /\ LET row == messages'[Len(messages')]
       IN /\ row.user_id = msg'.user_id
          /\ row.text = msg'.text
          /\ row.mood_score = NULL
          /\ row.timestamp # NULL

C2_Fallback ==
    /\ messages' = messages
    /\ replies' = <<Reply(msg'.user_id, "Error generating response.")>>

\* C2 as stated: the call succeeding (it did not raise) gives one new row, the
\* call failing gives no row and the fallback reply.
C2_RowOnEverySuccess ==
    [][ C2_Case =>
            /\ Len(gens') = 1
            /\ IF ~gens'[1].response.raises THEN C2_OneRow ELSE C2_Fallback ]_vars

\* C2 amended: a call that returns a non-empty text gives exactly one new row
\* (the sender's id, the original text, NULL mood_score, a timestamp); a call
\* that raises or returns no text gives no row and the one fallback reply.
C2_RowOnGeneratedText ==
    [][ C2_Case =>
            /\ Len(gens') = 1
            /\ IF ~Falsy(generate_ai(gens'[1].response))
               THEN C2_OneRow
               ELSE C2_Fallback ]_vars

C2_Witness ==
    /\ msg.kind = "text"
    /\ Len(gens) = 1
    /\ gens[1].response.text = "AI reply"
    /\ Len(messages) = 1
    /\ messages[1].text = msg.text

\* C3: the users table changes only in the selection branch of text handling
\* and only in the sender's row; the messages table changes only by one row
\* appended in the generation-success branch of text handling; rows already
\* in the log stay as they are.
C3_OnlyTwoWrites ==
    [][ /\ users' # users =>
            /\ msg'.kind = "text"
            /\ ~Falsy(normalize_language(msg'.text))
            /\ \A r \in (users' \ users) \cup (users \ users') :
                    r.user_id = msg'.user_id
        /\ messages' # messages =>
            /\ msg'.kind = "text"
            /\ Falsy(normalize_language(msg'.text))
            /\ get_language(users, msg'.user_id) # <<>>
            /\ Len(gens') = 1
            /\ ~Falsy(generate_ai(gens'[1].response))
            /\ Len(messages') = Len(messages) + 1
        /\ Len(messages') >= Len(messages)
        /\ SubSeq(messages', 1, Len(messages)) = messages
        /\ msg'.kind \in {"start", "language", "photo", "audio", "video"} =>
            /\ users' = users
            /\ messages' = messages ]_vars

C3_Witness ==
    /\ msg.kind = "text"
    /\ Len(messages) = 1
    /\ users # {}
    /\ messages[1].user_id = msg.user_id

\* C4: one language per user_id at most; after a selection the sender's
\* stored language is the selected tag and every other user's row is as
\* before; selecting the stored tag again changes nothing; nothing but a
\* selection changes a stored language.
C4_LastWriteWins ==
    [][ /\ \A u \in Users : Cardinality({ r \in users' : r.user_id = u }) <= 1
        /\ \A r \in users' : r.user_id \in Users /\ r.language \in Tags
        /\ IF msg'.kind = "text" /\ ~Falsy(normalize_language(msg'.text))
           THEN LET tag == normalize_language(msg'.text)
                IN /\ get_language(users', msg'.user_id) = <<tag>>
                   /\ \A v \in Users \ {msg'.user_id} :
                          get_language(users', v) = get_language(users, v)
                   /\ get_language(users, msg'.user_id) = <<tag>> => users' = users
           ELSE \A v \in Users : get_language(users', v) = get_language(users, v) ]_vars

C4_Witness ==
    /\ now = 3
    /\ msg = Update("text", 1, Button("Hindi"))
    /\ users = { [user_id |-> 1, language |-> "Hindi"] }
    /\ replies = <<Reply(1, "Language set to Hindi")>>

\* C5: a text in which exactly one of the five names is written resolves to
\* that name; a text in which none is written resolves to None.
C5_SingleName ==
    res # Pending =>
        /\ Cardinality(Mentioned(arg)) = 1 => res \in Mentioned(arg)
        /\ Contained(arg) = {} => res = None

C5_Witness ==
    /\ arg = cFlag \o cSpace \o cBengalish
    /\ res = "Bengalish"

\* C6: with several names in the text the result is the one that is first in
\* the order Hinglish, Bengalish, English, Hindi, Bengali, wherever the names
\* stand; Hinglish with Hindi gives Hinglish; a text with Bengalish never
\* gives Bengali, and gives Bengalish unless Hinglish outranks it.
C6_PriorityOrder ==
    res # Pending /\ Cardinality(Contained(arg)) > 1 =>
        /\ res \in Contained(arg)
        /\ \A tag \in Contained(arg) : Rank(res) <= Rank(tag)
        /\ {"Hinglish", "Hindi"} \subseteq Contained(arg) => res = "Hinglish"
        /\ "Bengalish" \in Contained(arg) =>
            /\ res # "Bengali"
            /\ "Hinglish" \notin Contained(arg) => res = "Bengalish"

C6_Witness ==
    /\ arg = cHindi \o cSpace \o cHinglish
    /\ res = "Hinglish"

\* C7: a text that resolves to a tag stores the tag, is confirmed, and makes
\* no generation call and no log row; any other text from a user without a
\* stored preference gets the prompt and no generation call; any other text
\* from a user with a stored preference makes exactly one generation call,
\* with the instruction of the stored language and then the raw text.
C7_TextRouting ==
    [][ msg'.kind = "text" =>
            LET u == msg'.user_id
                tag == normalize_language(msg'.text)
                stored == get_language(users, u)
            IN IF ~Falsy(tag)
               THEN /\ get_language(users', u) = <<tag>>
                    /\ replies' = <<Reply(u, "Language set to " \o tag)>>
                    /\ gens' = <<>>
                    /\ messages' = messages
               ELSE IF stored = <<>>
               THEN /\ replies' = <<Reply(u, "Please select language first.")>>
                    /\ gens' = <<>>
               ELSE /\ Len(gens') = 1
                    /\ gens'[1].instruction = language_instruction(stored[1])
                    /\ gens'[1].directive = Persona
                    /\ gens'[1].content = msg'.text ]_vars

C7_Witness ==
    /\ msg = Update("text", 1, cSad)
    /\ users = { [user_id |-> 1, language |-> "Hindi"] }
    /\ Len(gens) = 1
    /\ gens[1].instruction = "Respond in Hindi using Devanagari script."
    /\ gens[1].content = cSad

\* values that are none of the five tags
OtherValues == { None, "", "english", "French", "Hindi ", "Select language:" }

\* C8: a photo or voice/audio whose download succeeded makes its generation
\* call with the instruction of the sender's stored tag, and with the English
\* instruction when nothing is stored; it sends no selection prompt and
\* writes no row; language_instruction gives the English instruction for
\* every value outside the five tags.
C8_MediaDefaultsToEnglish ==
    [][ msg'.kind \in {"photo", "audio"} =>
            LET stored == get_language(users, msg'.user_id)
            IN /\ messages' = messages
               /\ users' = users
               /\ \A i \in 1..Len(replies') : replies'[i].text \notin SelectPrompts
               /\ ~raised' => Len(gens') = 1
               /\ \A i \in 1..Len(gens') :
                      gens'[i].instruction =
                          IF stored = <<>> THEN "Respond in English."
                          ELSE language_instruction(stored[1])
               /\ \A v \in OtherValues :
                      language_instruction(v) = "Respond in English." ]_vars

C8_Witness ==
    /\ msg.kind = "photo"
    /\ users = {}
    /\ Len(gens) = 1
    /\ gens[1].instruction = "Respond in English."
    /\ replies = <<Reply(msg.user_id, "AI reply")>>
    /\ messages = <<>>

\* C9: a video gets the static reply, no generation call and no write,
\* stored preference or not; no update makes more than one generation call;
\* /start and /language make none.
C9_VideoAndCallCount ==
    [][ /\ Len(gens') <= 1
        /\ msg'.kind \in {"start", "language"} => gens' = <<>>
        /\ msg'.kind = "video" =>
            /\ replies' = <<Reply(msg'.user_id,
                                  "Video analysis currently limited. Coming soon")>>
            /\ gens' = <<>>
            /\ users' = users
            /\ messages' = messages ]_vars

C9_Witness ==
    /\ msg.kind = "video"
    /\ get_language(users, msg.user_id) # <<>>
    /\ Len(replies) = 1
    /\ gens = <<>>

\* C10: when the request threads serve different users, then under every
\* interleaving what a handler's fetchone() returns is a stored preference
\* its own user had between the handler's execute and its fetchone (absent,
\* if the user had none).
C10_OwnLookup ==
    [][ \A t \in Threads :
            /\ pc[t] = "fetch"
            /\ pc'[t] = "finish"
            /\ \A s \in Threads \ {t} : req[s].user_id # req[t].user_id
            => got'[t] \in visible[t] ]_vars

====
